---- MODULE Spec2Model ----
(***************************************************************************)
(* Model of emissions_bike_car.py: a Streamlit script that is re-run from  *)
(* top to bottom on every widget change.  The state is the widgets' values *)
(* and every value the script computes from them.  The script computes in  *)
(* Python floats (IEEE-754 binary64, round to nearest, ties to even); the  *)
(* model computes the same values exactly, as sign * mantissa * 2^exponent *)
(* with the mantissa a multi-limb natural number.                          *)
(***************************************************************************)
EXTENDS Integers, Sequences, FiniteSets, TLC

(***************************************************************************)
(* Natural numbers of any size: little-endian sequences of limbs in        *)
(* 0 .. Base-1 without leading (most significant) zero limbs; <<>> is 0.   *)
(***************************************************************************)
LimbBits == 13

Base == 2^LimbBits

RECURSIVE BNorm(_)
BNorm(a) ==
    IF a = <<>> THEN <<>>
    ELSE IF a[Len(a)] = 0 THEN BNorm(SubSeq(a, 1, Len(a) - 1))
    ELSE a

RECURSIVE BFromInt(_)
BFromInt(n) ==
    IF n = 0 THEN <<>> ELSE <<n % Base>> \o BFromInt(n \div Base)

\* the lowest limb of a, and the limbs above it
Limb0(a) == IF a = <<>> THEN 0 ELSE a[1]

Rest(a) == IF a = <<>> THEN <<>> ELSE Tail(a)

RECURSIVE BAddC(_, _, _)
BAddC(a, b, c) ==
    IF a = <<>> /\ b = <<>> THEN (IF c = 0 THEN <<>> ELSE <<c>>)
    ELSE <<(Limb0(a) + Limb0(b) + c) % Base>>
         \o BAddC(Rest(a), Rest(b), (Limb0(a) + Limb0(b) + c) \div Base)

BAdd(a, b) == BAddC(a, b, 0)

\* a - b - c for a >= b + c
RECURSIVE BSubC(_, _, _)
BSubC(a, b, c) ==
    IF a = <<>> THEN <<>>
    ELSE <<(a[1] - Limb0(b) - c) % Base>>
         \o BSubC(Tail(a), Rest(b), IF a[1] - Limb0(b) - c < 0 THEN 1 ELSE 0)

BSub(a, b) == BNorm(BSubC(a, b, 0))

\* -1, 0, 1 as a < b, a = b, a > b
RECURSIVE BCmpFrom(_, _, _)
BCmpFrom(a, b, i) ==
    IF i = 0 THEN 0
    ELSE IF a[i] < b[i] THEN -1
    ELSE IF a[i] > b[i] THEN 1
    ELSE BCmpFrom(a, b, i - 1)

BCmp(a, b) ==
    IF Len(a) < Len(b) THEN -1
    ELSE IF Len(a) > Len(b) THEN 1
    ELSE BCmpFrom(a, b, Len(a))

\* a * k + c for a limb-sized k
RECURSIVE BMulSmallC(_, _, _)
BMulSmallC(a, k, c) ==
    IF a = <<>> THEN (IF c = 0 THEN <<>> ELSE <<c>>)
    ELSE <<(a[1] * k + c) % Base>> \o BMulSmallC(Tail(a), k, (a[1] * k + c) \div Base)

RECURSIVE BMulRaw(_, _)
BMulRaw(a, b) ==
    IF a = <<>> \/ b = <<>> THEN <<>>
    ELSE BAdd(BMulSmallC(b, a[1], 0), <<0>> \o BMulRaw(Tail(a), b))

\* a * b, one row per limb of the shorter factor
BMul(a, b) ==
    IF Len(a) <= Len(b) THEN BNorm(BMulRaw(a, b)) ELSE BNorm(BMulRaw(b, a))

\* long division from limb i down, with remainder r and quotient limbs q so far
RECURSIVE BDivSmallFrom(_, _, _, _, _)
BDivSmallFrom(a, d, i, r, q) ==
    IF i = 0 THEN <<BNorm(q), r>>
    ELSE BDivSmallFrom(a, d, i - 1, (r * Base + a[i]) % d,
                       <<(r * Base + a[i]) \div d>> \o q)

\* <<quotient, remainder>> of a by an integer d with d * Base within TLC's integers
BDivSmall(a, d) == BDivSmallFrom(a, d, Len(a), 0, <<>>)

\* the integer a bignum of at most two limbs stands for
BToInt(a) ==
    IF a = <<>> THEN 0
    ELSE IF Len(a) = 1 THEN a[1]
    ELSE a[1] + Base * a[2]

RECURSIVE IntBitLen(_)
IntBitLen(n) == IF n = 0 THEN 0 ELSE 1 + IntBitLen(n \div 2)

BBitLen(a) ==
    IF a = <<>> THEN 0 ELSE LimbBits * (Len(a) - 1) + IntBitLen(a[Len(a)])

RECURSIVE ZeroLimbs(_)
ZeroLimbs(n) == IF n = 0 THEN <<>> ELSE <<0>> \o ZeroLimbs(n - 1)

\* a * 2^n
BShl(a, n) ==
    IF a = <<>> THEN <<>>
    ELSE ZeroLimbs(n \div LimbBits) \o BMulSmallC(a, 2^(n % LimbBits), 0)

\* floor(a / 2^n)
BShr(a, n) ==
    IF n \div LimbBits >= Len(a) THEN <<>>
    ELSE BDivSmall(SubSeq(a, n \div LimbBits + 1, Len(a)), 2^(n % LimbBits))[1]

\* bit i of a (bit 0 is the least significant)
BBit(a, i) ==
    IF i \div LimbBits + 1 > Len(a) THEN 0
    ELSE (a[i \div LimbBits + 1] \div 2^(i % LimbBits)) % 2

\* whether a has a nonzero bit below bit i
BLowNonZero(a, i) ==
    \/ \E j \in 1..Len(a) : j < i \div LimbBits + 1 /\ a[j] # 0
    \/ /\ i \div LimbBits + 1 <= Len(a)
       /\ a[i \div LimbBits + 1] % 2^(i % LimbBits) # 0

RECURSIVE IntTrailingZeros(_)
IntTrailingZeros(n) == IF n % 2 = 1 THEN 0 ELSE 1 + IntTrailingZeros(n \div 2)

\* the number of trailing zero bits of a # 0
RECURSIVE BTrailingZeros(_)
BTrailingZeros(a) ==
    IF a[1] = 0 THEN LimbBits + BTrailingZeros(Tail(a))
    ELSE IntTrailingZeros(a[1])

(***************************************************************************)
(* Python floats.  A finite float is [s, m, e]: the value (-1)^s * m * 2^e *)
(* with m zero or odd, so that equal values are equal records.  Every      *)
(* operation computes the exact result and rounds it once to Precision     *)
(* significant bits, to nearest, ties to even.  The exponent is unbounded: *)
(* no value the script computes from the modelled inputs leaves the normal *)
(* range of a double.                                                      *)
(***************************************************************************)
Precision == 53

FZero == [s |-> 0, m |-> <<>>, e |-> 0]

\* the float of exact value (-1)^s * N * 2^E, for N of at most Precision bits
CanonShift(s, N, E, tz) == [s |-> s, m |-> BShr(N, tz), e |-> E + tz]

Canon(s, N, E) ==
    IF N = <<>> THEN FZero ELSE CanonShift(s, N, E, BTrailingZeros(N))

\* the float nearest to (-1)^s * (N + f) * 2^E, with 0 <= f < 1 and f # 0 iff sticky
\* q rounded up when the first dropped bit rbit is set and either a lower
\* dropped bit is (low) or q is odd
RoundQ(s, q, E, rbit, low) ==
    Canon(s, IF rbit = 1 /\ (low \/ BBit(q, 0) = 1) THEN BAdd(q, <<1>>) ELSE q, E)

RoundShift(s, N, E, sticky, sh) ==
    RoundQ(s, BShr(N, sh), E + sh, BBit(N, sh - 1), sticky \/ BLowNonZero(N, sh - 1))

RoundNE(s, N, E, sticky) ==
    IF BBitLen(N) <= Precision THEN Canon(s, N, E)
    ELSE RoundShift(s, N, E, sticky, BBitLen(N) - Precision)

\* float(n) of a Python int n >= 0
FromInt(n) == Canon(0, BFromInt(n), 0)

FNeg(a) == IF a.m = <<>> THEN a ELSE [a EXCEPT !.s = 1 - a.s]

\* a * b
FMul(a, b) == RoundNE((a.s + b.s) % 2, BMul(a.m, b.m), a.e + b.e, FALSE)

\* a / b, for b # 0 whose odd mantissa fits BDivSmall (every divisor of the
\* script does: the passenger counts 1..5 and the powers of ten of its literals)
FDivRound(s, E, qr) == RoundNE(s, qr[1], E, qr[2] # 0)

\* the quotient of N * 2^k by d has at least Precision + 2 bits
FDivShift(s, N, E, d, k) == FDivRound(s, E - k, BDivSmall(BShl(N, k), d))

FDivBy(s, N, E, d) ==
    FDivShift(s, N, E, d,
              IF Precision + 2 + IntBitLen(d) > BBitLen(N)
              THEN Precision + 2 + IntBitLen(d) - BBitLen(N) ELSE 0)

FDiv(a, b) ==
    IF a.m = <<>> THEN FZero
    ELSE IF b.m = <<1>> THEN [s |-> (a.s + b.s) % 2, m |-> a.m, e |-> a.e - b.e]
    ELSE FDivBy((a.s + b.s) % 2, a.m, a.e - b.e, BToInt(b.m))

\* a + b
\* (-1)^sa * Na * 2^e + (-1)^sb * Nb * 2^e
FAddAligned(sa, Na, sb, Nb, e) ==
    IF sa = sb THEN RoundNE(sa, BAdd(Na, Nb), e, FALSE)
    ELSE IF BCmp(Na, Nb) = 0 THEN FZero
    ELSE IF BCmp(Na, Nb) > 0 THEN RoundNE(sa, BSub(Na, Nb), e, FALSE)
    ELSE RoundNE(sb, BSub(Nb, Na), e, FALSE)

FAddAt(a, b, e) == FAddAligned(a.s, BShl(a.m, a.e - e), b.s, BShl(b.m, b.e - e), e)

FAdd(a, b) == FAddAt(a, b, IF a.e < b.e THEN a.e ELSE b.e)

\* a - b
FSub(a, b) == FAdd(a, FNeg(b))

\* -1, 0, 1 as |a| < |b|, |a| = |b|, |a| > |b|
FCmpAbsAt(a, b, e) == BCmp(BShl(a.m, a.e - e), BShl(b.m, b.e - e))

FCmpAbs(a, b) == FCmpAbsAt(a, b, IF a.e < b.e THEN a.e ELSE b.e)

\* a < b
FLt(a, b) ==
    IF a.s # b.s THEN a.s = 1
    ELSE IF a.s = 0 THEN FCmpAbs(a, b) < 0
    ELSE FCmpAbs(a, b) > 0

FLe(a, b) == ~FLt(b, a)

FPos(a) == a.m # <<>> /\ a.s = 0

\* abs(a)
FAbs(a) == [a EXCEPT !.s = 0]

\* the float a decimal literal n / 10^scale denotes: the nearest double
FromDecimal(n, scale) == FDiv(FromInt(n), FromInt(10^scale))

(***************************************************************************)
(* Python dicts keep insertion order: a dict is the sequence of its        *)
(* <<key, value>> items.                                                   *)
(***************************************************************************)
RECURSIVE GetOr(_, _, _)
GetOr(dict, key, default) ==
    IF dict = <<>> THEN default
    ELSE IF dict[1][1] = key THEN dict[1][2]
    ELSE GetOr(Tail(dict), key, default)

\* dict[key] for a key of dict
Get(dict, key) == GetOr(dict, key, FZero)

(***************************************************************************)
(* The script's tables and formulas, one definition per script variable.   *)
(***************************************************************************)
\* the selectbox's options
MODES ==
    << "Walking (including food fuel)", "Standard Bike", "Lightweight Bike",
       "E-Bike", "Small Car", "Electric Car", "Bus (per passenger)",
       "Local Electric Train" >>

ModeSet == {MODES[i] : i \in 1..Len(MODES)}

CAR_MODES == {"Small Car", "Electric Car"}

VIEWS == {"Per Trip", "Per Year"}

DIETS == {"Average Western", "Low-carbon / Plant-based"}

trips_per_year == 520

slider_min == 1

slider_max == 5

\* a slip: the slider read for the small car only
resolve_passengers_small_car_only(vehicle, slider_value) ==
    IF vehicle = "Small Car" THEN slider_value ELSE 1

\* passengers: the slider's value for the two car modes, 1 otherwise
resolve_passengers(vehicle, slider_value) ==
    IF vehicle \in CAR_MODES THEN slider_value ELSE 1

\* a slip: one trip a week
multiplier_weekly(v) == IF v = "Per Year" THEN 52 ELSE 1

multiplier(v) == IF v = "Per Year" THEN trips_per_year ELSE 1

AVERAGE_WESTERN_PER_KCAL == FromDecimal(25, 4)

LOW_CARBON_PER_KCAL == FromDecimal(12, 4)

\* a slip: the diet ignored
food_emission_per_kcal_any_diet(diet) == AVERAGE_WESTERN_PER_KCAL

food_emission_per_kcal(diet) ==
    IF diet = "Average Western" THEN AVERAGE_WESTERN_PER_KCAL ELSE LOW_CARBON_PER_KCAL

KCAL_PER_KM ==
    << <<"Walking (including food fuel)", 80>>,
       <<"Standard Bike", 50>>,
       <<"Lightweight Bike", 40>>,
       <<"E-Bike", 20>> >>

\* a slip: the bus's 0.12 typed as 1.2
embodied_emissions_bus_typo ==
    << <<"Walking (including food fuel)", FromDecimal(0, 1)>>,
       <<"Standard Bike", FromDecimal(2, 2)>>,
       <<"Lightweight Bike", FromDecimal(16, 3)>>,
       <<"E-Bike", FromDecimal(5, 2)>>,
       <<"Small Car", FromDecimal(44, 2)>>,
       <<"Electric Car", FromDecimal(24, 2)>>,
       <<"Bus (per passenger)", FromDecimal(12, 1)>>,
       <<"Local Electric Train", FromDecimal(935, 5)>> >>

embodied_emissions ==
    << <<"Walking (including food fuel)", FromDecimal(0, 1)>>,
       <<"Standard Bike", FromDecimal(2, 2)>>,
       <<"Lightweight Bike", FromDecimal(16, 3)>>,
       <<"E-Bike", FromDecimal(5, 2)>>,
       <<"Small Car", FromDecimal(44, 2)>>,
       <<"Electric Car", FromDecimal(24, 2)>>,
       <<"Bus (per passenger)", FromDecimal(12, 2)>>,
       <<"Local Electric Train", FromDecimal(935, 5)>> >>

\* a slip: KCAL_PER_KM.get(mode, 1)
food_emissions_default_one(mode, per_kcal) ==
    FMul(FromInt(GetOr(KCAL_PER_KM, mode, 1)), per_kcal)

\* KCAL_PER_KM.get(mode, 0) * food_emission_per_kcal
food_emissions(mode, per_kcal) ==
    FMul(FromInt(GetOr(KCAL_PER_KM, mode, 0)), per_kcal)

\* the loop over embodied_emissions that fills EMISSIONS_FACTORS
RECURSIVE build_factors(_, _)
build_factors(embodied, per_kcal) ==
    IF embodied = <<>> THEN <<>>
    ELSE << <<embodied[1][1],
              FAdd(embodied[1][2], food_emissions(embodied[1][1], per_kcal))>> >>
         \o build_factors(Tail(embodied), per_kcal)

EMISSIONS_FACTORS(diet) ==
    build_factors(embodied_emissions, food_emission_per_kcal(diet))

emission_factor(base_factor, pass) == FDiv(base_factor, FromInt(pass))

\* factor * distance_km * multiplier, evaluated left to right
scaled(factor, distance, mult) == FMul(FMul(factor, distance), FromInt(mult))

total_emissions(factor, distance, mult) == scaled(factor, distance, mult)

\* base_factor * distance_km * multiplier of the vehicle caption
vehicle_total(base_factor, distance, mult) == scaled(base_factor, distance, mult)

\* the vehicle caption: shown, with the undivided total, for a shared car
vehicle_caption(vehicle, pass, base_factor, distance, mult) ==
    IF pass > 1 /\ vehicle \in CAR_MODES
    THEN <<vehicle_total(base_factor, distance, mult)>>
    ELSE <<>>

solo_car_emissions(distance, mult) ==
    scaled(Get(embodied_emissions, "Small Car"), distance, mult)

\* a slip: the operands swapped
emissions_saved_vs_solo_swapped(solo, total) == FSub(total, solo)

emissions_saved_vs_solo(solo, total) == FSub(solo, total)

banner(saved) == IF FPos(saved) THEN "success" ELSE "warning"

\* a slip: both car entries shared among the passengers
data_divisor_every_car(mode, vehicle, pass) ==
    IF vehicle \in CAR_MODES /\ mode \in CAR_MODES THEN pass ELSE 1

\* a slip: no entry shared
data_divisor_none(mode, vehicle, pass) == 1

\* the divisor of a mode's entry in the comparison
data_divisor(mode, vehicle, pass) ==
    IF mode = vehicle /\ mode \in CAR_MODES THEN pass ELSE 1

\* one entry of the comparison
data_entry(mode, factor, vehicle, pass, distance, mult) ==
    scaled(FDiv(factor, FromInt(data_divisor(mode, vehicle, pass))), distance, mult)

RECURSIVE emissions_data(_, _, _, _, _)
emissions_data(factors, vehicle, pass, distance, mult) ==
    IF factors = <<>> THEN <<>>
    ELSE << <<factors[1][1],
              data_entry(factors[1][1], factors[1][2], vehicle, pass, distance, mult)>> >>
         \o emissions_data(Tail(factors), vehicle, pass, distance, mult)

solo_baseline(distance, mult) ==
    scaled(Get(embodied_emissions, "Small Car"), distance, mult)

RECURSIVE savings_vs_car(_, _)
savings_vs_car(baseline, data) ==
    IF data = <<>> THEN <<>>
    ELSE << <<data[1][1], FSub(baseline, data[1][2])>> >>
         \o savings_vs_car(baseline, Tail(data))

\* sorted(..., key=lambda x: x[1]) is stable: an item goes before the first
\* entry whose value is greater than its own, after every entry it ties with
RECURSIVE insert_sorted(_, _)
\* a slip: an item put before the entries it ties with
insert_sorted_before_ties(sorted, item) ==
    IF sorted = <<>> THEN <<item>>
    ELSE IF FLe(item[2], sorted[1][2]) THEN <<item>> \o sorted
    ELSE <<sorted[1]>> \o insert_sorted(Tail(sorted), item)

insert_sorted(sorted, item) ==
    IF sorted = <<>> THEN <<item>>
    ELSE IF FLt(item[2], sorted[1][2]) THEN <<item>> \o sorted
    ELSE <<sorted[1]>> \o insert_sorted(Tail(sorted), item)

RECURSIVE sort_stable(_, _)
sort_stable(done, rest) ==
    IF rest = <<>> THEN done
    ELSE sort_stable(insert_sorted(done, rest[1]), Tail(rest))

sorted_modes(data) == sort_stable(<<>>, data)

\* sorted_modes unzipped into modes and emissions, and the savings in that order
RECURSIVE column(_, _)
column(pairs, k) ==
    IF pairs = <<>> THEN <<>> ELSE <<pairs[1][k]>> \o column(Tail(pairs), k)

RECURSIVE savings(_, _)
savings(sav, modes) ==
    IF modes = <<>> THEN <<>> ELSE <<Get(sav, modes[1])>> \o savings(sav, Tail(modes))

\* One run of the script on the widgets' values, in the script's order: each
\* step below hands the values computed so far to the next.
PlotData(pass, mult, factors, base, ef, total, caption, solo, saved, data, sav, srt) ==
    [ passengers              |-> pass,
      multiplier              |-> mult,
      EMISSIONS_FACTORS       |-> factors,
      base_factor             |-> base,
      emission_factor         |-> ef,
      total_emissions         |-> total,
      vehicle_caption         |-> caption,
      solo_car_emissions      |-> solo,
      emissions_saved_vs_solo |-> saved,
      banner                  |-> banner(saved),
      emissions_data          |-> data,
      savings_vs_car          |-> sav,
      modes                   |-> column(srt, 1),
      emissions               |-> column(srt, 2),
      savings                 |-> savings(sav, column(srt, 1)) ]

Comparison(vehicle, distance, pass, mult, factors, base, ef, total, solo, data) ==
    PlotData(pass, mult, factors, base, ef, total,
             vehicle_caption(vehicle, pass, base, distance, mult), solo,
             emissions_saved_vs_solo(solo, total), data,
             savings_vs_car(solo_baseline(distance, mult), data),
             sorted_modes(data))

Selection(vehicle, distance, pass, mult, factors, base, ef) ==
    Comparison(vehicle, distance, pass, mult, factors, base, ef,
               total_emissions(ef, distance, mult),
               solo_car_emissions(distance, mult),
               emissions_data(factors, vehicle, pass, distance, mult))

Factors(vehicle, distance, pass, mult, factors) ==
    Selection(vehicle, distance, pass, mult, factors, Get(factors, vehicle),
              emission_factor(Get(factors, vehicle), pass))

Script(vehicle, distance, slider_value, v, diet) ==
    Factors(vehicle, distance, resolve_passengers(vehicle, slider_value),
            multiplier(v), EMISSIONS_FACTORS(diet))

(***************************************************************************)
(* The state machine: the widgets, and the last run's results.             *)
(***************************************************************************)
\* distances run over 0, 0.5, ... MaxHalfKm / 2 km, by the number input's step
MaxHalfKm == 20

VARIABLES vehicle_type, distance_km, slider, view, diet_type, out, input_refused

widgets == <<vehicle_type, distance_km, slider, view, diet_type>>

vars == <<vehicle_type, distance_km, slider, view, diet_type, out, input_refused>>

distance_step == FromDecimal(5, 1)

distance_default == FromDecimal(50, 1)

\* the float of n half kilometres
HalfKm(n) == FMul(FromInt(n), distance_step)

Distances == {HalfKm(n) : n \in 0..MaxHalfKm}

\* the widgets' values the script can be run on, and its run on each of them:
\* the script is a function of the widgets' values, tabulated once
WidgetStates ==
    {<<m, d, p, v, diet>> :
        m \in CAR_MODES, d \in Distances, p \in slider_min..slider_max,
        v \in VIEWS, diet \in DIETS}
    \cup
    {<<m, d, slider_min, v, diet>> :
        m \in ModeSet \ CAR_MODES, d \in Distances, v \in VIEWS, diet \in DIETS}

Runs == [w \in WidgetStates |-> Script(w[1], w[2], w[3], w[4], w[5])]

Rerun(vehicle, distance, slider_value, v, diet) ==
    IF <<vehicle, distance, slider_value, v, diet>> \in WidgetStates
    THEN Runs[<<vehicle, distance, slider_value, v, diet>>]
    ELSE Script(vehicle, distance, slider_value, v, diet)

Init ==
    /\ vehicle_type = MODES[1]
    /\ distance_km = distance_default
    /\ slider = slider_min
    /\ view = "Per Trip"
    /\ diet_type = "Average Western"
    /\ out = Rerun(MODES[1], distance_default, slider_min, "Per Trip", "Average Western")
    /\ input_refused = <<>>

\* a slip: no minimum
distance_accepted_any(d) == TRUE

\* number_input(min_value=0.0): a value below the minimum is not taken
distance_accepted(d) == FLe(FZero, d)

\* slider(min_value=1, max_value=5)
passengers_accepted(p) == slider_min <= p /\ p <= slider_max

\* a widget refuses a value outside its range: nothing is re-run
Refuse(widget, value) ==
    /\ input_refused' = <<widget, value>>
    /\ UNCHANGED <<widgets, out>>

\* the number input takes a value at or above its minimum, and the script re-runs
SetDistance(d) ==
    /\ FLe(d, HalfKm(MaxHalfKm))
    /\ IF distance_accepted(d)
       THEN /\ distance_km' = d
            /\ out' = Rerun(vehicle_type, d, slider, view, diet_type)
            /\ input_refused' = <<>>
            /\ UNCHANGED <<vehicle_type, slider, view, diet_type>>
       ELSE Refuse("distance_km", d)

\* the number input's + and - buttons: one step up or down
StepDistance(up) ==
    SetDistance(IF up THEN FAdd(distance_km, distance_step)
                      ELSE FSub(distance_km, distance_step))

\* the slider exists only while a car mode is selected, and starts at its minimum
slider_after(m) ==
    IF m \in CAR_MODES /\ vehicle_type \in CAR_MODES THEN slider ELSE slider_min

SelectVehicle(m) ==
    /\ vehicle_type' = m
    /\ slider' = slider_after(m)
    /\ out' = Rerun(m, distance_km, slider_after(m), view, diet_type)
    /\ input_refused' = <<>>
    /\ UNCHANGED <<distance_km, view, diet_type>>

SetPassengers(p) ==
    /\ vehicle_type \in CAR_MODES
    /\ IF passengers_accepted(p)
       THEN /\ slider' = p
            /\ out' = Rerun(vehicle_type, distance_km, p, view, diet_type)
            /\ input_refused' = <<>>
            /\ UNCHANGED <<vehicle_type, distance_km, view, diet_type>>
       ELSE Refuse("passengers", p)

SelectView(v) ==
    /\ view' = v
    /\ out' = Rerun(vehicle_type, distance_km, slider, v, diet_type)
    /\ input_refused' = <<>>
    /\ UNCHANGED <<vehicle_type, distance_km, slider, diet_type>>

SelectDiet(diet) ==
    /\ diet_type' = diet
    /\ out' = Rerun(vehicle_type, distance_km, slider, view, diet)
    /\ input_refused' = <<>>
    /\ UNCHANGED <<vehicle_type, distance_km, slider, view>>

Next ==
    \/ \E up \in BOOLEAN : StepDistance(up)
    \/ \E m \in ModeSet : SelectVehicle(m)
    \/ \E p \in (slider_min - 1)..(slider_max + 1) : SetPassengers(p)
    \/ \E v \in VIEWS : SelectView(v)
    \/ \E diet \in DIETS : SelectDiet(diet)

Spec == Init /\ [][Next]_vars

(***************************************************************************)
(* The claims.  Their formulas are written with the float operations and   *)
(* the state alone, not with the script's definitions above.               *)
(***************************************************************************)
IsCar(m) == m \in {"Small Car", "Electric Car"}

FoodModes ==
    {"Walking (including food fuel)", "Standard Bike", "Lightweight Bike", "E-Bike"}

LowCarbon == "Low-carbon / Plant-based"

\* 520 for the yearly view, 1 for the trip view
ViewMultiplier == FromInt(IF view = "Per Year" THEN 520 ELSE 1)

\* baselineTotal: 0.44 * distance_km * multiplier
BaselineTotal == FMul(FMul(FromDecimal(44, 2), distance_km), ViewMultiplier)

\* vehicleTotal: factors[mode] * distance_km * multiplier
VehicleTotal == FMul(FMul(out.base_factor, distance_km), ViewMultiplier)

\* a mode's value in the comparison, and its factor
Value(m) == Get(out.emissions_data, m)

Factor(m) == Get(out.EMISSIONS_FACTORS, m)

\* the position of a mode in the table
ModeIndex(m) == CHOOSE i \in 1..Len(MODES) : MODES[i] = m

\* a - b without rounding
ExactSubAligned(sa, Na, sb, Nb, e) ==
    IF sa # sb THEN Canon(sa, BAdd(Na, Nb), e)
    ELSE IF BCmp(Na, Nb) = 0 THEN FZero
    ELSE IF BCmp(Na, Nb) > 0 THEN Canon(sa, BSub(Na, Nb), e)
    ELSE Canon(1 - sa, BSub(Nb, Na), e)

ExactSubAt(a, b, e) ==
    ExactSubAligned(a.s, BShl(a.m, a.e - e), b.s, BShl(b.m, b.e - e), e)

ExactSub(a, b) == ExactSubAt(a, b, IF a.e < b.e THEN a.e ELSE b.e)

\* a * 2^-52
Ulps(a) == [a EXCEPT !.e = @ - 52]

\* the refused value is outside its widget's range
RefusedInvalid(r) ==
    \/ r[1] = "distance_km" /\ FLt(r[2], FZero)
    \/ r[1] = "passengers" /\ (r[2] < 1 \/ r[2] > 5)

C2_DivisorOnlyOnSelectedCar ==
    /\ Len(out.emissions_data) = Len(MODES)
    /\ \A i \in 1..Len(MODES) :
          /\ out.emissions_data[i][1] = MODES[i]
          /\ out.emissions_data[i][2] =
                IF MODES[i] = vehicle_type /\ IsCar(MODES[i])
                THEN FMul(FMul(FDiv(Factor(MODES[i]), FromInt(slider)), distance_km),
                          ViewMultiplier)
                ELSE FMul(FMul(Factor(MODES[i]), distance_km), ViewMultiplier)

C2_Witness ==
    /\ vehicle_type = "Small Car"
    /\ slider = 4
    /\ FPos(distance_km)
    /\ Value("Electric Car") = FMul(FMul(Factor("Electric Car"), distance_km), ViewMultiplier)
    /\ Value("Electric Car") #
          FMul(FMul(FDiv(Factor("Electric Car"), FromInt(4)), distance_km), ViewMultiplier)

\* C3: all_modes is sorted ascending by value, holds every mode exactly once
\* with its value, keeps equal values in table order, and each saving is
\* baselineTotal minus the entry's value.
C3_SortedStable ==
    /\ Len(out.modes) = Len(MODES)
    /\ Len(out.emissions) = Len(MODES)
    /\ Len(out.savings) = Len(MODES)
    /\ {out.modes[i] : i \in 1..Len(MODES)} = ModeSet
    /\ \A i \in 1..Len(MODES) :
          /\ out.emissions[i] = Value(out.modes[i])
          /\ out.savings[i] = FSub(BaselineTotal, out.emissions[i])
    /\ \A i \in 1..(Len(MODES) - 1) :
          /\ FLe(out.emissions[i], out.emissions[i + 1])
          /\ out.emissions[i] = out.emissions[i + 1] =>
                ModeIndex(out.modes[i]) < ModeIndex(out.modes[i + 1])

\* a tie away from distance 0: the electric car shared by two, and the bus
C3_Witness ==
    /\ vehicle_type = "Electric Car"
    /\ slider = 2
    /\ FPos(distance_km)
    /\ \E i \in 1..(Len(MODES) - 1) :
          /\ out.modes[i] = "Electric Car"
          /\ out.modes[i + 1] = "Bus (per passenger)"
          /\ out.emissions[i] = out.emissions[i + 1]

\* C4 as claimed: total_emission == baselineTotal - saved_vs_baseline exactly.
C4_Original ==
    out.total_emissions = FSub(out.solo_car_emissions, out.emissions_saved_vs_solo)

\* C4 as amended: saved_vs_baseline is baselineTotal - total_emission, one
\* rounded subtraction, and baselineTotal - saved_vs_baseline is within
\* 2^-52 * baselineTotal of total_emission.
C4_Amended ==
    /\ out.solo_car_emissions = BaselineTotal
    /\ out.emissions_saved_vs_solo = FSub(BaselineTotal, out.total_emissions)
    /\ FCmpAbs(ExactSub(FSub(out.solo_car_emissions, out.emissions_saved_vs_solo),
                        out.total_emissions),
               Ulps(BaselineTotal)) <= 0

\* the two sides differ
C4_Witness ==
    /\ FPos(out.total_emissions)
    /\ out.total_emissions # FSub(out.solo_car_emissions, out.emissions_saved_vs_solo)

\* C5: switching the view from Per Trip to Per Year, all else fixed,
\* multiplies total_emission, vehicleTotal and baselineTotal by exactly 520,
\* and Per Trip uses the multiplier 1.
C5_PerYearTimes520 ==
    [][ ( /\ view = "Per Trip"
          /\ view' = "Per Year"
          /\ UNCHANGED <<vehicle_type, distance_km, slider, diet_type>> )
        => /\ out.multiplier = 1
           /\ out'.total_emissions = FMul(FromInt(520), out.total_emissions)
           /\ out'.solo_car_emissions = FMul(FromInt(520), out.solo_car_emissions)
           /\ FMul(FMul(out'.base_factor, distance_km'), FromInt(out'.multiplier))
                 = FMul(FromInt(520),
                        FMul(FMul(out.base_factor, distance_km), FromInt(out.multiplier)))
           /\ out.vehicle_caption # <<>> =>
                 /\ out'.vehicle_caption # <<>>
                 /\ out'.vehicle_caption[1] = FMul(FromInt(520), out.vehicle_caption[1]) ]_vars

C5_Witness ==
    /\ view = "Per Year"
    /\ out.multiplier = 520
    /\ out.vehicle_caption # <<>>
    /\ FPos(out.total_emissions)
    /\ out.total_emissions =
          FMul(FromInt(520), FMul(out.emission_factor, distance_km))

\* the step from the average western to the low-carbon diet, all else fixed
ToLowCarbon ==
    /\ diet_type = "Average Western"
    /\ diet_type' = LowCarbon
    /\ UNCHANGED <<vehicle_type, distance_km, slider, view>>

\* C6 as claimed: the low-carbon diet strictly decreases the value of every
\* food-fuelled mode and leaves the other modes' values unchanged.
C6_Original ==
    [][ ToLowCarbon =>
          \A m \in ModeSet :
             IF m \in FoodModes
             THEN FLt(Get(out'.emissions_data, m), Get(out.emissions_data, m))
             ELSE Get(out'.emissions_data, m) = Get(out.emissions_data, m) ]_vars

\* C6 as amended: strictly, for a distance above 0; at distance 0 every value
\* is 0 under both diets.  No value increases.
C6_Amended ==
    [][ ToLowCarbon =>
          \A m \in ModeSet :
             /\ FLe(Get(out'.emissions_data, m), Get(out.emissions_data, m))
             /\ m \notin FoodModes =>
                   Get(out'.emissions_data, m) = Get(out.emissions_data, m)
             /\ (m \in FoodModes /\ FPos(distance_km)) =>
                   FLt(Get(out'.emissions_data, m), Get(out.emissions_data, m))
             /\ distance_km = FZero =>
                   /\ Get(out.emissions_data, m) = FZero
                   /\ Get(out'.emissions_data, m) = FZero ]_vars

\* the low-carbon value of walking, below its average western value
C6_Witness ==
    /\ diet_type = LowCarbon
    /\ FPos(distance_km)
    /\ FLt(Value("Walking (including food fuel)"),
           FMul(FMul(FMul(FromInt(80), FromDecimal(25, 4)), distance_km), ViewMultiplier))

\* C7: the small car driven alone has per_person_rate 0.44 and
\* saved_vs_baseline 0 under either diet, any distance and either view; the
\* baseline is 0.44 * distance_km * multiplier, and 0.44 is factors[SmallCar].
C7_SmallCarSolo ==
    /\ Factor("Small Car") = FromDecimal(44, 2)
    /\ out.solo_car_emissions = BaselineTotal
    /\ (vehicle_type = "Small Car" /\ slider = 1) =>
          /\ out.emission_factor = FromDecimal(44, 2)
          /\ out.emissions_saved_vs_solo = FZero

C7_Witness ==
    /\ vehicle_type = "Small Car"
    /\ slider = 1
    /\ diet_type = LowCarbon
    /\ view = "Per Year"
    /\ FPos(distance_km)
    /\ out.emissions_saved_vs_solo = FZero

\* C8: the passengers count only for the car modes.  Any other mode has
\* passengers 1, per_person_rate factors[mode] and total_emission
\* vehicleTotal; a car has per_person_rate factors[mode] / passengers; the
\* electric car over 10 km shared by 2, per trip, has rate 0.12 and total 1.2.
C8_PassengersOnlyForCars ==
    /\ ~IsCar(vehicle_type) =>
          /\ out.passengers = 1
          /\ out.emission_factor = Factor(vehicle_type)
          /\ out.total_emissions = VehicleTotal
    /\ IsCar(vehicle_type) =>
          /\ out.passengers = slider
          /\ out.emission_factor = FDiv(Factor(vehicle_type), FromInt(slider))
    /\ ( /\ vehicle_type = "Electric Car"
         /\ distance_km = FromInt(10)
         /\ slider = 2
         /\ view = "Per Trip" ) =>
          /\ out.emission_factor = FromDecimal(12, 2)
          /\ out.total_emissions = FromDecimal(12, 1)

C8_Witness ==
    /\ vehicle_type = "Electric Car"
    /\ distance_km = FromInt(10)
    /\ slider = 2
    /\ view = "Per Trip"
    /\ out.total_emissions = FromDecimal(12, 1)

\* C9: the selected mode's entry in the comparison has the summary's
\* total_emission as its value and saved_vs_baseline as its saving.
C9_SummaryMatchesComparison ==
    /\ Value(vehicle_type) = out.total_emissions
    /\ Get(out.savings_vs_car, vehicle_type) = out.emissions_saved_vs_solo
    /\ \E i \in 1..Len(out.modes) :
          /\ out.modes[i] = vehicle_type
          /\ out.emissions[i] = out.total_emissions
          /\ out.savings[i] = out.emissions_saved_vs_solo

C9_Witness ==
    /\ IsCar(vehicle_type)
    /\ slider = 3
    /\ FPos(distance_km)
    /\ Value(vehicle_type) = out.total_emissions
    /\ Value(vehicle_type) # VehicleTotal

\* saved_vs_baseline is 0: no distance, or the small car driven alone
NothingSaved ==
    distance_km = FZero \/ (vehicle_type = "Small Car" /\ slider = 1)

\* C10: no mode emits more than the small car driven alone: every value is
\* at most baselineTotal and every saving at least 0; saved_vs_baseline is 0
\* exactly at distance 0 and for the small car driven alone, which are the
\* only inputs with the 'emits more' banner.
C10_NeverAboveBaseline ==
    /\ \A i \in 1..Len(out.emissions) :
          /\ FLe(out.emissions[i], BaselineTotal)
          /\ FLe(FZero, out.savings[i])
    /\ \A i \in 1..Len(out.savings_vs_car) : FLe(FZero, out.savings_vs_car[i][2])
    /\ FLe(FZero, out.emissions_saved_vs_solo)
    /\ out.emissions_saved_vs_solo = FZero <=> NothingSaved
    /\ out.banner = "warning" <=> NothingSaved
    /\ out.banner = "success" <=> ~NothingSaved

C10_Witness ==
    /\ distance_km = FZero
    /\ vehicle_type = "Bus (per passenger)"
    /\ out.banner = "warning"
    /\ out.emissions_saved_vs_solo = FZero

====
